---- MODULE Spec2Model ----
(***************************************************************************)
(* mysqlbak: dump, gzip and rotate MySQL backups.                          *)
(*                                                                         *)
(* The model follows package bak (Archiver.Archive, Archiver.Rotate,       *)
(* parseFileInfoList, sortAsArchives) and the main loop of the command.    *)
(* Times are whole seconds (time.Time.Unix()); a time.Duration is the      *)
(* number of seconds d.Seconds() yields for it.                            *)
(*                                                                         *)
(* Go slices are 0-based.  Tapes are kept as a function over 0..quota-1 as *)
(* in the source; the entries of one slice are a TLA+ sequence (1-based),  *)
(* so t[1:] of the source is Tail(t) here.                                 *)
(***************************************************************************)
EXTENDS Integers, Sequences, FiniteSets, TLC

VARIABLES
    mode,     \* which entry point is being exercised: "sched", "parse", "main"
    pc,       \* position inside the running function
    now,      \* sortAsArchives: nowUnix (now.Unix())
    entries,  \* the list the caller built and handed to sortAsArchives
    files,    \* sortAsArchives: the caller's slice, shared and overwritten with nil
    tapes,    \* sortAsArchives: the local variable tapes
    assigned, \* ghost: tapes as the assignment pass of the first call left them
    a,        \* sortAsArchives: the local variable a, the value returned
    i,        \* sortAsArchives: index of the collision loop
    first,    \* ghost: the value returned by the first call on a slice
    listing,  \* parseFileInfoList: the argument fis (file names, in listing order)
    fiBuf,    \* parseFileInfoList: the value returned
    clock,    \* wall clock, seconds
    dbs,      \* program.Databases
    dir,      \* per database, its backup directory: the set of file names in it
    idx,      \* main: index of the range loop over program.Databases
    exit,     \* main: the variable exit
    rotated,  \* ghost: outcome of the last Rotate, or NoRotate
    runs,     \* number of times the command has been started
    faults,   \* number of I/O failures injected so far
    log,      \* ghost: per database of this run, what Archive and Rotate returned
    mailed,   \* main's deferred function: what became of the notification
    status    \* the exit status of the process, once it has exited

vars == <<mode, pc, now, entries, files, tapes, assigned, a, i, first, listing, fiBuf,
          clock, dbs, dir, idx, exit, rotated, runs, faults, log, mailed, status>>

-----------------------------------------------------------------------------
(* Bounds of the model *)

\* longest entry list handed to sortAsArchives
MaxFiles == 5

\* the reference time of the scheduler runs (seconds since the epoch)
NowUnix0 == 4000000

\* longest directory listing handed to parseFileInfoList
MaxList == 3

\* the clock when the command is first started
Clock0 == 4000000

\* most snapshots a backup directory holds before the first run
MaxSeed == 12

\* number of times the command is started
MaxRuns == 2

\* number of failing system calls (open, dump, close, readdir, remove)
MaxFaults == 1

\* longest list of databases one run of the command is given
MaxDbs == 2

-----------------------------------------------------------------------------
(* Package constants and init() *)

quota == 12

\* rotationInterval = time.Hour, in seconds
rotationInterval == 3600

\* 5 * time.Minute, in seconds
hotWindow == 300

RECURSIVE Pow2(_)
Pow2(n) == IF n = 0 THEN 1 ELSE 2 * Pow2(n - 1)

\* timeSeries[0] = 5 min; timeSeries[n] = rotationInterval * 1 << uint(n-1)
timeSeries == [n \in 0..(quota - 1) |->
                 IF n = 0 THEN hotWindow ELSE rotationInterval * Pow2(n - 1)]

-----------------------------------------------------------------------------
(* File names and Finfo *)

\* A file name is a sequence of tokens: the text time.Format produces for one
\* second, a '.', or any other run of text.
TS(t) == [k |-> "ts", v |-> t]
DOT == [k |-> "dot", v |-> 0]
TXT == [k |-> "txt", v |-> 0]

\* Finfo: the file (its name) and the parsed time as Unix seconds
Finfo(name, created) == [name |-> name, created |-> created]

Range(q) == {q[k] : k \in DOMAIN q}

\* the nil *Finfo
NIL == [name |-> <<>>, created |-> 0]

-----------------------------------------------------------------------------
(* sortAsArchives *)

EmptyTapes == [n \in 0..(quota - 1) |-> <<>>]

\* float64(nowUnix-f.created) < d.Seconds()
FitsLe(f, d, nowUnix) == nowUnix - f.created <= d
Fits(f, d, nowUnix) == nowUnix - f.created < d

\* One iteration of the outer assignment loop (bucket n): every non-nil file
\* that fits is appended to tapes[n], in slice order, and replaced by nil.
Claimed(fs, n, nowUnix) ==
    SelectSeq(fs, LAMBDA f : f # NIL /\ Fits(f, timeSeries[n], nowUnix))

Holes(fs, n, nowUnix) ==
    [j \in 1..Len(fs) |->
        IF fs[j] # NIL /\ Fits(fs[j], timeSeries[n], nowUnix) THEN NIL ELSE fs[j]]

RECURSIVE AssignFrom(_, _, _, _)
AssignFrom(fs, tp, n, nowUnix) ==
    IF n = quota
    THEN [files |-> fs, tapes |-> tp]
    ELSE CHOOSE r \in
             {AssignFrom(st.files, st.tapes, n + 1, nowUnix) :
                 st \in {[files |-> Holes(fs, n, nowUnix),
                          tapes |-> [tp EXCEPT ![n] = tp[n] \o Claimed(fs, n, nowUnix)]]}} :
             TRUE

\* the whole assignment pass
AssignPass(fs, nowUnix) == AssignFrom(fs, EmptyTapes, 0, nowUnix)

\* leftovers: the files that are still non-nil, in slice order
Leftovers(fs) == SelectSeq(fs, LAMBDA f : f # NIL)

\* the guard of the promotion: not the last tape, and the next tape is empty
CanPushLenBug(tp, n) == Len(tp[n]) - 1 # n /\ n # quota - 1 /\ Len(tp[n + 1]) = 0
CanPush(tp, n) == quota - 1 # n /\ Len(tp[n + 1]) = 0

\* One iteration of the collision loop on tape n.  t is tapes[n] as the range
\* statement read it; tapes[n] itself is never shortened.
CollideKeepNone(tp, purge, n) ==
    IF Len(tp[n]) < 1
    THEN [tapes |-> tp, purge |-> purge]
    ELSE IF CanPush(tp, n)
         THEN [tapes |-> [tp EXCEPT ![n + 1] = tp[n + 1] \o tp[n]], purge |-> purge]
         ELSE [tapes |-> tp, purge |-> purge \o tp[n]]
CollideNoPurge(tp, purge, n) ==
    IF Len(tp[n]) >= 2 /\ CanPush(tp, n)
    THEN [tapes |-> [tp EXCEPT ![n + 1] = tp[n + 1] \o Tail(tp[n])], purge |-> purge]
    ELSE [tapes |-> tp, purge |-> purge]
CollideStep(tp, purge, n) ==
    IF Len(tp[n]) < 2
    THEN [tapes |-> tp, purge |-> purge]
    ELSE IF CanPush(tp, n)
         THEN [tapes |-> [tp EXCEPT ![n + 1] = tp[n + 1] \o Tail(tp[n])], purge |-> purge]
         ELSE [tapes |-> tp, purge |-> purge \o Tail(tp[n])]

RECURSIVE CollideFrom(_, _, _)
CollideFrom(tp, purge, n) ==
    IF n = quota
    THEN [tapes |-> tp, purge |-> purge]
    ELSE CHOOSE r \in
             {CollideFrom(s.tapes, s.purge, n + 1) : s \in {CollideStep(tp, purge, n)}} :
             TRUE

\* The value returned: a.tapes is allocated and never written, a.purge is
\* what the two purge loops appended.
ResultLocalTapes(tp, purge) == [tapes |-> tp, purge |-> purge]
Result(tp, purge) == [tapes |-> EmptyTapes, purge |-> purge]

\* The whole call: the value returned and the caller's slice afterwards.
sortAsArchives(fs, nowUnix) ==
    CHOOSE r \in
        {[a |-> Result(col.tapes, col.purge), files |-> col.files, tapes |-> col.tapes] :
            col \in UNION
                {{[files |-> asg.files] @@ CollideFrom(asg.tapes, Leftovers(asg.files), 0)} :
                    asg \in {AssignPass(fs, nowUnix)}}} :
        TRUE

-----------------------------------------------------------------------------
(* parseFileInfoList *)

\* strings.IndexRune(name, '.'): the position of the first '.', 0 when none
\* (the source's -1)
DotIdx(name) ==
    IF \E k \in 1..Len(name) : name[k] = DOT
    THEN CHOOSE k \in 1..Len(name) :
             name[k] = DOT /\ \A h \in 1..(k - 1) : name[h] # DOT
    ELSE 0

\* name[:dotIdx]
Stem(name) == SubSeq(name, 1, DotIdx(name) - 1)

\* time.Parse(arch.TimeFormat, s) succeeds when s is the text of one second
\* and nothing else
ParseFails(s) == ~(Len(s) = 1 /\ s[1].k = "ts")

\* ftime.Unix() of the parsed time
ParsedUnix(s) == s[1].v

\* the loop of lines 164-190: the files that are skipped ...
SkippedWithoutDot(name) == DotIdx(name) = 0
Skipped(name) == DotIdx(name) = 0 \/ ParseFails(Stem(name))

\* ... and the Finfo appended for each of the others, in listing order
ParsedBuf(fis) ==
    LET kept == SelectSeq(fis, LAMBDA name : ~Skipped(name))
    IN  [j \in 1..Len(kept) |-> Finfo(kept[j], ParsedUnix(Stem(kept[j])))]

\* FinfoList.Less: prefers the latest time
LessOldestFirst(f, g) == f.created < g.created
Less(f, g) == f.created > g.created

\* sort.Sort(FinfoList(fis)): the sort is not stable, so the result is any
\* arrangement of the entries in which no entry is Less than one before it.
RECURSIVE SortOutcomes(_)
SortOutcomes(S) ==
    IF S = {}
    THEN {<<>>}
    ELSE UNION {{<<f>> \o r : r \in SortOutcomes(S \ {f})} :
                   f \in {g \in S : \A h \in S : ~Less(h, g)}}

sortFileInfo(buf) == SortOutcomes(Range(buf))

\* the lists parseFileInfoList may return for the listing fis
parseFileInfoList(fis) == sortFileInfo(ParsedBuf(fis))

-----------------------------------------------------------------------------
(* Idle values of the variables an entry point does not use *)

NoResult == [tapes |-> EmptyTapes, purge |-> <<NIL>>]
NoRotate == [done |-> FALSE, db |-> "", staged |-> 0, failed |-> 0,
             scanned |-> {}, attempted |-> <<>>, err |-> FALSE]
NoStatus == [exited |-> FALSE, code |-> 0]

DbNames == {"a", "b"}

SchedIdle ==
    /\ now = 0 /\ entries = <<>> /\ files = <<>> /\ tapes = EmptyTapes
    /\ assigned = EmptyTapes
    /\ a = Result(EmptyTapes, <<>>) /\ i = 0 /\ first = NoResult

ParseIdle == listing = <<>> /\ fiBuf = <<>>

MainIdle ==
    /\ clock = 0 /\ dbs = <<>> /\ dir = [db \in DbNames |-> {}] /\ idx = 0
    /\ exit = 0 /\ rotated = NoRotate /\ runs = 0 /\ faults = 0
    /\ log = <<>> /\ mailed = "none" /\ status = NoStatus

schedVars == <<now, entries, files, tapes, assigned, a, i, first>>
parseVars == <<listing, fiBuf>>
mainVars == <<clock, dbs, dir, idx, exit, rotated, runs, faults, log, mailed, status>>

-----------------------------------------------------------------------------
(* The scheduler on its own: sortAsArchives applied to the lists              *)
(* parseFileInfoList can return (sorted newest first), step by step, and then *)
(* a second time on the same slice.                                            *)

\* ages (now - created) on both sides of the windows of the time series
Ages == {0, 1} \cup {timeSeries[n] : n \in 0..(quota - 1)}

\* the age lists of at most n entries, newest (smallest age) first
RECURSIVE AgeListsUpTo(_, _)
AgeListsUpTo(S, n) ==
    IF n = 0
    THEN S
    ELSE CHOOSE r \in
             {AgeListsUpTo(T, n - 1) :
                 T \in {S \cup UNION {{Append(s, g) :
                                          g \in {h \in Ages : Len(s) = 0 \/ s[Len(s)] <= h}} :
                                      s \in S}}} :
             TRUE

AgeLists == AgeListsUpTo({<<>>}, MaxFiles)

\* the j-th file of a list: files of one second differ in their extension
MkName(t, j) == <<TS(t), DOT>> \o [x \in 1..j |-> TXT]

MkEntries(ages, nowUnix) ==
    [j \in 1..Len(ages) |-> Finfo(MkName(nowUnix - ages[j], j), nowUnix - ages[j])]

SchedInit ==
    /\ mode = "sched"
    /\ pc = "assign"
    /\ now = NowUnix0
    /\ entries \in {MkEntries(s, NowUnix0) : s \in AgeLists}
    /\ files = entries
    /\ tapes = EmptyTapes
    /\ assigned = EmptyTapes
    /\ a = Result(EmptyTapes, <<>>)
    /\ i = 0
    /\ first = NoResult
    /\ ParseIdle
    /\ MainIdle

\* lines 214-230: the assignment pass
SchedAssign ==
    /\ mode = "sched" /\ pc = "assign"
    /\ LET asg == AssignPass(files, now)
       IN  /\ files' = asg.files
           /\ tapes' = asg.tapes
           /\ assigned' = asg.tapes
    /\ pc' = "leftover"
    /\ UNCHANGED <<mode, now, entries, a, i, first, parseVars, mainVars>>

\* lines 234-238: what is left in the slice goes to a.purge
SchedLeftover ==
    /\ mode = "sched" /\ pc = "leftover"
    /\ a' = [a EXCEPT !.purge = a.purge \o Leftovers(files)]
    /\ i' = 0
    /\ pc' = "collide"
    /\ UNCHANGED <<mode, now, entries, files, tapes, assigned, first, parseVars, mainVars>>

\* lines 242-256: one iteration of the collision loop
SchedCollide ==
    /\ mode = "sched" /\ pc = "collide" /\ i < quota
    /\ LET s == CollideStep(tapes, a.purge, i)
       IN  /\ tapes' = s.tapes
           /\ a' = [a EXCEPT !.purge = s.purge]
    /\ i' = i + 1
    /\ UNCHANGED <<mode, pc, now, entries, files, assigned, first, parseVars, mainVars>>

\* line 258: return a
SchedReturn ==
    /\ mode = "sched" /\ pc = "collide" /\ i = quota
    /\ a' = Result(tapes, a.purge)
    /\ first' = a'
    /\ pc' = "done"
    /\ UNCHANGED <<mode, now, entries, files, tapes, assigned, i, parseVars, mainVars>>

\* a second call with the same slice and the same now
SchedAgain ==
    /\ mode = "sched" /\ pc = "done"
    /\ LET r == sortAsArchives(files, now)
       IN  /\ a' = r.a
           /\ files' = r.files
           /\ tapes' = r.tapes
    /\ pc' = "again"
    /\ UNCHANGED <<mode, now, entries, assigned, i, first, parseVars, mainVars>>

SchedNext ==
    \/ SchedAssign
    \/ SchedLeftover
    \/ SchedCollide
    \/ SchedReturn
    \/ SchedAgain

SchedSpec == SchedInit /\ [][SchedNext]_vars

-----------------------------------------------------------------------------
(* The scanner on its own: parseFileInfoList applied to listings in any order *)

\* the seconds the listed names encode
ListedTimes == {NowUnix0 - g : g \in 0..2}

\* names of snapshots, and names the scan skips: no '.', no time before the
\* '.', text after the time, nothing before the '.'
ListedNames ==
    {<<TS(t), DOT, TXT, DOT, TXT>> : t \in ListedTimes}
        \cup {<<TS(t), DOT, TXT>> : t \in ListedTimes}
        \cup {<<TS(NowUnix0)>>, <<TXT, DOT, TXT>>, <<TS(NowUnix0), TXT, DOT, TXT>>,
              <<DOT, TXT>>}

\* the listings of at most n different names, in any order
RECURSIVE ListingsUpTo(_, _)
ListingsUpTo(S, n) ==
    IF n = 0
    THEN S
    ELSE CHOOSE r \in
             {ListingsUpTo(T, n - 1) :
                 T \in {S \cup UNION {{Append(q, name) : name \in ListedNames \ Range(q)} :
                                      q \in S}}} :
             TRUE

ParseInit ==
    /\ mode = "parse"
    /\ pc = "parse"
    /\ listing \in ListingsUpTo({<<>>}, MaxList)
    /\ fiBuf = <<>>
    /\ SchedIdle
    /\ MainIdle

\* lines 161-195: the whole function, the trailing sort included
Parse ==
    /\ mode = "parse" /\ pc = "parse"
    /\ fiBuf' \in parseFileInfoList(listing)
    /\ pc' = "parsed"
    /\ UNCHANGED <<mode, listing, schedVars, mainVars>>

ParseNext == Parse

ParseSpec == ParseInit /\ [][ParseNext]_vars

-----------------------------------------------------------------------------
(* The command: main's loop over program.Databases, Archive and Rotate, run  *)
(* again and again on the same backup directory.                             *)

\* fmt.Sprintf("%s.sql.gz", now) with now := time.Now().Format(arch.TimeFormat)
ArchiveName(t) == <<TS(t), DOT, TXT, DOT, TXT>>

\* ioutil.ReadDir: the names of the directory sorted by filename.  Snapshot
\* names sort by their second; the order of the others is fixed but unknown.
NameKey(name) == IF Len(name) > 0 /\ Head(name).k = "ts" THEN Head(name).v ELSE 0 - 1

RECURSIVE ReadDir(_)
ReadDir(S) ==
    IF S = {}
    THEN <<>>
    ELSE CHOOSE r \in
             {<<n>> \o ReadDir(S \ {n}) :
                 n \in {CHOOSE x \in S : \A y \in S : NameKey(x) <= NameKey(y)}} :
             TRUE

\* the sets of at most k elements of S
RECURSIVE SubsetsUpTo(_, _)
SubsetsUpTo(S, k) ==
    IF k <= 0
    THEN {{}}
    ELSE CHOOSE r \in
             {P \cup {q \cup {x} : q \in P, x \in S} : P \in {SubsetsUpTo(S, k - 1)}} :
             TRUE

\* time between two starts of the command, and the time a dump takes
Intervals == {1, rotationInterval, timeSeries[quota - 1]}
DumpTimes == {0, hotWindow}

\* A directory that earlier runs have filled: its m-th snapshot is as old as
\* the m-th window allows (older than every window past the last one).
SeedAge(m) ==
    IF m <= quota THEN timeSeries[m - 1] - 1 ELSE timeSeries[quota - 1] + (m - quota)

SeedDir(k) == {ArchiveName(Clock0 - SeedAge(m)) : m \in 1..k}

\* files of other origin lying in the directory
StrayNames == {<<TXT, DOT, TXT>>, <<TS(Clock0)>>}

Init ==
    /\ mode = "main"
    /\ pc = "off"
    /\ clock = Clock0
    /\ dbs = <<"a">>
    /\ \E k \in 0..MaxSeed, J \in {{}, StrayNames} :
          dir = [db \in DbNames |-> IF db = "a" THEN SeedDir(k) \cup J ELSE {}]
    /\ idx = 0
    /\ exit = 0
    /\ rotated = NoRotate
    /\ runs = 0
    /\ faults = 0
    /\ log = <<>>
    /\ mailed = "none"
    /\ status = NoStatus
    /\ SchedIdle
    /\ ParseIdle

\* the command is started, d seconds after the previous run ended
Start(d) ==
    /\ mode = "main" /\ pc = "off"
    /\ runs < MaxRuns
    /\ runs' = runs + 1
    /\ clock' = clock + d
    /\ idx' = 0
    /\ exit' = 0
    /\ rotated' = NoRotate
    /\ log' = <<>>
    /\ mailed' = "none"
    /\ status' = NoStatus
    /\ pc' = "archive"
    /\ UNCHANGED <<mode, dbs, dir, faults, schedVars, parseVars>>

\* main, lines 143-162: the loop moves on to the next database, or ends
NextDb ==
    /\ idx' = idx + 1
    /\ pc' = IF idx + 1 < Len(dbs) THEN "archive" ELSE "exit"

\* main, lines 148-152: Archive returned an error: exit = 1; continue
OnArchiveErrorStop ==
    /\ exit' = 1
    /\ idx' = idx + 1
    /\ pc' = "exit"
OnArchiveError ==
    /\ exit' = 1
    /\ NextDb

\* Archive, lines 63-94: the named result eArch.  The return statement sets it
\* to the dump error (nil on success); the deferred closes run afterwards and
\* each one that fails sets eArch to its own error.
ArchiveResult(dumpFails, closeFails) ==
    IF closeFails THEN "close" ELSE IF dumpFails THEN "dump" ELSE "nil"

\* Archive, lines 54-57 and 88-92: the directory once Archive has returned.
\* os.OpenFile(O_CREATE|O_WRONLY) creates the file or opens the one that is
\* there; a failed dump is followed by os.Remove of that name.
TargetKept(D, name, dumpFails) == D \cup {name}
TargetAfter(D, name, dumpFails) ==
    IF dumpFails THEN D \ {name} ELSE D \cup {name}

\* what the run records for one call of Archive: the target, which of its
\* steps failed, and the error it returned ("nil" for none)
Archived(db, name, openFails, dumpFails, closeFails) ==
    [db |-> db, name |-> name, dump |-> dumpFails, close |-> closeFails,
     arch |-> IF openFails THEN "open" ELSE ArchiveResult(dumpFails, closeFails),
     rot |-> "none"]

\* Archive, lines 54-61: os.OpenFile fails; main sets exit and continues
ArchiveOpenFails ==
    /\ mode = "main" /\ pc = "archive"
    /\ faults < MaxFaults
    /\ faults' = faults + 1
    /\ rotated' = NoRotate
    /\ log' = Append(log, Archived(dbs[idx + 1], ArchiveName(clock),
                                   TRUE, FALSE, FALSE))
    /\ OnArchiveError
    /\ UNCHANGED <<mode, clock, dbs, dir, runs, mailed, status, schedVars, parseVars>>

\* Archive, lines 88-92: the file is opened (created when absent), mysqldump
\* fails after d seconds, the file is removed; closing the gzip writer or the
\* file may fail as well (c).  main sets exit and continues
ArchiveDumpFails(d, c) ==
    /\ mode = "main" /\ pc = "archive"
    /\ faults < MaxFaults
    /\ faults' = faults + 1
    /\ dir' = [dir EXCEPT ![dbs[idx + 1]] = TargetAfter(@, ArchiveName(clock), TRUE)]
    /\ clock' = clock + d
    /\ rotated' = NoRotate
    /\ log' = Append(log, Archived(dbs[idx + 1], ArchiveName(clock),
                                   FALSE, TRUE, c))
    /\ OnArchiveError
    /\ UNCHANGED <<mode, dbs, runs, mailed, status, schedVars, parseVars>>

\* Archive, lines 63-82: the dump succeeds but closing the gzip writer or the
\* file fails, which becomes the error returned; main sets exit and continues
ArchiveCloseFails(d) ==
    /\ mode = "main" /\ pc = "archive"
    /\ faults < MaxFaults
    /\ faults' = faults + 1
    /\ dir' = [dir EXCEPT ![dbs[idx + 1]] = TargetAfter(@, ArchiveName(clock), FALSE)]
    /\ clock' = clock + d
    /\ rotated' = NoRotate
    /\ log' = Append(log, Archived(dbs[idx + 1], ArchiveName(clock),
                                   FALSE, FALSE, TRUE))
    /\ OnArchiveError
    /\ UNCHANGED <<mode, dbs, runs, mailed, status, schedVars, parseVars>>

\* Archive returns nil: the snapshot named after the second of its start is
\* in the directory; main goes on to Rotate
ArchiveOk(d) ==
    /\ mode = "main" /\ pc = "archive"
    /\ dir' = [dir EXCEPT ![dbs[idx + 1]] = TargetAfter(@, ArchiveName(clock), FALSE)]
    /\ clock' = clock + d
    /\ rotated' = NoRotate
    /\ log' = Append(log, Archived(dbs[idx + 1], ArchiveName(clock),
                                   FALSE, FALSE, FALSE))
    /\ pc' = "rotate"
    /\ UNCHANGED <<mode, dbs, idx, exit, runs, faults, mailed, status,
                   schedVars, parseVars>>

\* Rotate, lines 99-102: ioutil.ReadDir fails; main sets exit
RotateReadDirFails ==
    /\ mode = "main" /\ pc = "rotate"
    /\ faults < MaxFaults
    /\ faults' = faults + 1
    /\ exit' = 1
    /\ log' = [log EXCEPT ![Len(log)].rot = "err"]
    /\ NextDb
    /\ UNCHANGED <<mode, clock, dbs, dir, rotated, runs, mailed, status,
                   schedVars, parseVars>>

\* Rotate, lines 115-126: the loop over a.purge.  os.Remove is called on every
\* entry; the removals of the entries in lost fail, each failure is appended
\* to errors and the loop goes on.
RemoveUntilError(purge, lost) ==
    LET stop == IF \E k \in 1..Len(purge) : purge[k] \in lost
                THEN CHOOSE k \in 1..Len(purge) :
                         purge[k] \in lost /\ \A h \in 1..(k - 1) : purge[h] \notin lost
                ELSE Len(purge)
    IN  [attempted |-> [k \in 1..stop |-> purge[k].name],
         errors |-> IF stop < Len(purge) \/ (stop > 0 /\ purge[stop] \in lost)
                    THEN <<purge[stop].name>> ELSE <<>>,
         removed |-> {purge[k].name : k \in {h \in 1..stop : purge[h] \notin lost}}]
RemoveAll(purge, lost) ==
    LET failing == SelectSeq(purge, LAMBDA f : f \in lost)
    IN  [attempted |-> [k \in 1..Len(purge) |-> purge[k].name],
         errors |-> [k \in 1..Len(failing) |-> failing[k].name],
         removed |-> {f.name : f \in Range(purge) \ lost}]

\* Rotate, lines 131-135: one error when any removal failed, else nil
RotateError(errors) == Len(errors) > 0

\* Rotate, lines 104-135: list, parse, schedule, remove every file of
\* a.purge; the removals of the files in lost fail.  main sets exit on error.
Rotate ==
    /\ mode = "main" /\ pc = "rotate"
    /\ \E fb \in parseFileInfoList(ReadDir(dir[dbs[idx + 1]])) :
          \E purge \in {sortAsArchives(fb, clock).a.purge} :
              \E lost \in SubsetsUpTo(Range(purge), MaxFaults - faults) :
                  \E rm \in {RemoveAll(purge, lost)} :
                      \E err \in {RotateError(rm.errors)} :
                          /\ dir' = [dir EXCEPT ![dbs[idx + 1]] = @ \ rm.removed]
                          /\ faults' = faults + Cardinality(lost)
                          /\ exit' = IF err THEN 1 ELSE exit
                          /\ rotated' = [done |-> TRUE, db |-> dbs[idx + 1],
                                         staged |-> Cardinality(Range(purge)),
                                         failed |-> Cardinality(lost),
                                         scanned |-> {f.name : f \in Range(fb)},
                                         attempted |-> rm.attempted,
                                         err |-> err]
                          /\ log' = [log EXCEPT ![Len(log)].rot =
                                        IF err THEN "err" ELSE "nil"]
    /\ NextDb
    /\ UNCHANGED <<mode, clock, dbs, runs, mailed, status, schedVars, parseVars>>

\* main's deferred function, lines 122-141: without a Mailgun configuration
\* ("none") it exits at once; otherwise the notification is sent, a failure
\* to send is logged, and the process exits
MailOutcomes == {"none", "sent", "failed"}

ExitStatusMail(e, m) == IF m = "failed" THEN 1 ELSE e
ExitStatus(e, m) == e

MainExit(m) ==
    /\ mode = "main" /\ pc = "exit"
    /\ mailed' = m
    /\ status' = [exited |-> TRUE, code |-> ExitStatus(exit, m)]
    /\ pc' = "off"
    /\ UNCHANGED <<mode, clock, dbs, dir, idx, exit, rotated, runs, faults, log,
                   schedVars, parseVars>>

\* one run of main's loop and its deferred function
MainNext ==
    \/ ArchiveOpenFails
    \/ \E d \in DumpTimes, c \in BOOLEAN : ArchiveDumpFails(d, c)
    \/ \E d \in DumpTimes : ArchiveCloseFails(d)
    \/ \E d \in DumpTimes : ArchiveOk(d)
    \/ RotateReadDirFails
    \/ Rotate
    \/ \E m \in MailOutcomes : MainExit(m)

Next ==
    \/ \E d \in Intervals : Start(d)
    \/ ArchiveOpenFails
    \/ \E d \in DumpTimes, c \in BOOLEAN : ArchiveDumpFails(d, c)
    \/ \E d \in DumpTimes : ArchiveCloseFails(d)
    \/ \E d \in DumpTimes : ArchiveOk(d)
    \/ RotateReadDirFails
    \/ Rotate
    \/ \E m \in MailOutcomes : MainExit(m)

Spec == Init /\ [][Next]_vars

-----------------------------------------------------------------------------
(* One run of the command over a list of databases, the same database         *)
(* possibly listed more than once.                                            *)

RECURSIVE DbListsUpTo(_)
DbListsUpTo(n) ==
    IF n = 0
    THEN {<<>>}
    ELSE CHOOSE r \in
             {P \cup {Append(q, db) : q \in P, db \in DbNames} :
                 P \in {DbListsUpTo(n - 1)}} :
             TRUE

DbLists == DbListsUpTo(MaxDbs) \ {<<>>}

MainInit ==
    /\ mode = "main"
    /\ pc = "archive"
    /\ clock = Clock0
    /\ dbs \in DbLists
    /\ \E k \in {0, MaxSeed}, J \in {{}, StrayNames} :
          dir = [db \in DbNames |-> SeedDir(k) \cup J]
    /\ idx = 0
    /\ exit = 0
    /\ rotated = NoRotate
    /\ runs = 1
    /\ faults = 0
    /\ log = <<>>
    /\ mailed = "none"
    /\ status = NoStatus
    /\ SchedIdle
    /\ ParseIdle

MainSpec == MainInit /\ [][MainNext]_vars

-----------------------------------------------------------------------------
(* Properties of sortAsArchives *)

RECURSIVE TapeTotalFrom(_, _)
TapeTotalFrom(tp, n) == IF n = quota THEN 0 ELSE Len(tp[n]) + TapeTotalFrom(tp, n + 1)

\* the number of entries held across all tapes
TapeTotal(tp) == TapeTotalFrom(tp, 0)

Age(f) == now - f.created

Returned == mode = "sched" /\ pc = "done"

\* the tapes of tp that hold entry f
TapesHolding(tp, f) == {n \in 0..(quota - 1) : f \in Range(tp[n])}

\* C2: the entries held across all tapes of the returned value number at most
\* quota, whatever list was handed in.
QuotaProperty == Returned => TapeTotal(a.tapes) <= quota

\* C2 witness: a call has returned for a list whose local tapes hold more than
\* quota entries (five files of the last second, cascading through five tapes).
QuotaWitness == Returned /\ TapeTotal(tapes) > quota

\* C3: in the returned value every entry handed in is either in purge or in
\* exactly one tape, never in both and never in neither.
PartitionProperty ==
    Returned =>
        \A f \in Range(entries) :
            \/ f \in Range(a.purge) /\ TapesHolding(a.tapes, f) = {}
            \/ f \notin Range(a.purge) /\ Cardinality(TapesHolding(a.tapes, f)) = 1

\* C4: a second call with the same entries collection and the same now returns
\* the value the first call returned.
IdempotenceProperty == (mode = "sched" /\ pc = "again") => a = first

\* C5: every entry whose age is not strictly less than the widest window is in
\* purge when the call returns.
OldestPurged ==
    Returned =>
        \A f \in Range(entries) :
            Age(f) >= timeSeries[quota - 1] => f \in Range(a.purge)

\* C5 witness: a returned call whose list holds an entry of exactly the widest
\* window's age next to younger entries.
OldestWitness ==
    /\ Returned
    /\ Len(entries) >= 3
    /\ Age(entries[1]) < timeSeries[0]
    /\ Age(entries[Len(entries)]) = timeSeries[quota - 1]

\* C6: when the collision loop visits tape i, not the last, holding two or more
\* entries while tape i+1 is empty, tape i+1 receives every entry of tape i but
\* the newest, in the same order, and the step adds nothing to purge.
PromotionStep ==
    [][(/\ mode = "sched" /\ pc = "collide"
        /\ i < quota - 1
        /\ Len(tapes[i]) >= 2
        /\ Len(tapes[i + 1]) = 0)
       => (/\ tapes'[i + 1] = Tail(tapes[i])
           /\ a'.purge = a.purge)]_vars

\* C6 witness: the loop has just promoted the excess of a tape of three.
PromotionWitness ==
    /\ mode = "sched" /\ pc = "collide"
    /\ i \in 1..(quota - 1)
    /\ Len(tapes[i - 1]) >= 3
    /\ tapes[i] = Tail(tapes[i - 1])
    /\ a.purge = <<>>

\* C7: if the assignment pass put all k >= 1 entries in tape j, then after the
\* collision pass exactly min(k, quota - j) entries are outside purge, the m-th
\* newest being the one tape j+m-1 keeps (its first entry), and the remaining
\* oldest entries are in purge.
Min(x, y) == IF x <= y THEN x ELSE y

CascadeProperty ==
    Returned =>
        \A j \in 0..(quota - 1) :
            (Len(entries) >= 1 /\ assigned[j] = entries) =>
                LET k == Len(entries)
                    keep == Min(k, quota - j)
                IN  /\ Cardinality(Range(entries) \ Range(a.purge)) = keep
                    /\ \A m \in 1..keep :
                          /\ entries[m] \notin Range(a.purge)
                          /\ Head(tapes[j + m - 1]) = entries[m]
                    /\ \A m \in (keep + 1)..k : entries[m] \in Range(a.purge)

\* C7 witness: three entries, all assigned to tape quota-2, so that the cascade
\* runs off the end and the oldest is purged.
CascadeWitness ==
    /\ Returned
    /\ Len(entries) = 3
    /\ assigned[quota - 2] = entries
    /\ a.purge = <<entries[3]>>

\* C8: when the collision loop visits a tape holding two or more entries that
\* is the last one, or whose next tape already holds an entry, every entry of
\* the tape but the newest is appended to purge and the next tape is unchanged.
TerminalPurgeStep ==
    [][(/\ mode = "sched" /\ pc = "collide"
        /\ i < quota
        /\ Len(tapes[i]) >= 2
        /\ (i = quota - 1 \/ Len(tapes[i + 1]) >= 1))
       => (/\ a'.purge = a.purge \o Tail(tapes[i])
           /\ tapes' = tapes)]_vars

\* C8 witness: the loop has just purged the excess of a tape of three whose
\* next tape was occupied.
TerminalPurgeWitness ==
    /\ mode = "sched" /\ pc = "collide"
    /\ i \in 1..(quota - 1)
    /\ Len(tapes[i - 1]) = 3
    /\ Len(tapes[i]) = 1
    /\ a.purge = Tail(tapes[i - 1])

\* C9: fewer than quota entries, each put in a tape of its own by the
\* assignment pass: purge is empty when the call returns.
DistinctTapes ==
    /\ Len(entries) < quota
    /\ \A f \in Range(entries) : Cardinality(TapesHolding(assigned, f)) = 1
    /\ \A n \in 0..(quota - 1) : Len(assigned[n]) <= 1

NoLossProperty == (Returned /\ DistinctTapes) => a.purge = <<>>

\* C9 witness: a returned call on five entries in five different tapes.
NoLossWitness ==
    /\ Returned
    /\ DistinctTapes
    /\ Len(entries) = 5

-----------------------------------------------------------------------------
(* Properties of parseFileInfoList *)

Parsed == mode = "parse" /\ pc = "parsed"

\* C10: the list returned is sorted newest first (for all x < y,
\* created[x] >= created[y]) and each entry's created is the time its file
\* name encodes.
OrderingProperty ==
    Parsed =>
        /\ \A x, y \in 1..Len(fiBuf) :
              x < y => fiBuf[x].created >= fiBuf[y].created
        /\ \A x \in 1..Len(fiBuf) :
              /\ fiBuf[x].name \in Range(listing)
              /\ Head(fiBuf[x].name) = TS(fiBuf[x].created)

\* C10 witness: a listing of three snapshots given oldest first comes back
\* newest first.
OrderingWitness ==
    /\ Parsed
    /\ Len(listing) = 3
    /\ Len(fiBuf) = 3
    /\ fiBuf[1].created > fiBuf[2].created
    /\ fiBuf[2].created > fiBuf[3].created
    /\ listing = <<fiBuf[3].name, fiBuf[2].name, fiBuf[1].name>>

-----------------------------------------------------------------------------
(* Properties of the runs of the command *)

\* the files of database db whose name parses as a time
Snapshots(db) == {name \in dir[db] : ~Skipped(name)}

\* C1: whenever a Rotate has completed with every removal succeeding, at most
\* quota files whose name parses as a time are left in the directory.
RotateQuota ==
    (mode = "main" /\ rotated.done /\ rotated.failed = 0) =>
        Cardinality(Snapshots(rotated.db)) <= quota

\* C1 witness: a Rotate has removed files, all successfully, and exactly quota
\* snapshots are left.
RotateQuotaWitness ==
    /\ mode = "main"
    /\ rotated.done
    /\ rotated.failed = 0
    /\ rotated.staged >= 1
    /\ Cardinality(Snapshots(rotated.db)) = quota

\* a name without a '.', or whose text before its first '.' is not the text
\* of a time in the time format
Unparsable(name) ==
    \/ \A k \in 1..Len(name) : name[k] # DOT
    \/ ~(Len(name) >= 2 /\ name[1].k = "ts" /\ name[2] = DOT)

\* C11: a Rotate that lists a directory holding unparsable names scans exactly
\* the other names, calls os.Remove on none of the unparsable ones and leaves
\* them all in the directory; the other files are still rotated (at most
\* quota of them are left when every removal succeeded).
StraySkipped ==
    [][(mode = "main" /\ pc = "rotate" /\ rotated'.done) =>
          LET D == dir[dbs[idx + 1]]
              stray == {n \in D : Unparsable(n)}
          IN  /\ rotated'.scanned = D \ stray
              /\ Range(rotated'.attempted) \subseteq D \ stray
              /\ stray \subseteq dir'[dbs[idx + 1]]
              /\ rotated'.failed = 0 =>
                     Cardinality(dir'[dbs[idx + 1]] \ stray) <= quota]_vars

\* C11 witness: a Rotate has removed snapshots from a directory in which a
\* file without a time before its '.' and a file without '.' are still lying.
StraySkippedWitness ==
    /\ mode = "main"
    /\ rotated.done
    /\ rotated.staged >= 1
    /\ rotated.failed = 0
    /\ StrayNames \subseteq dir[rotated.db]
    /\ \A n \in StrayNames : Unparsable(n)

\* C12: a completed Rotate has called os.Remove once on every entry of purge,
\* every entry whose removal did not fail is gone from the directory, and it
\* returned an error exactly when at least one removal failed.
RemoveEvery ==
    (mode = "main" /\ rotated.done) =>
        /\ Len(rotated.attempted) = rotated.staged
        /\ Cardinality(Range(rotated.attempted)) = rotated.staged
        /\ Cardinality(Range(rotated.attempted) \cap dir[rotated.db]) = rotated.failed
        /\ rotated.err <=> rotated.failed > 0

\* C12 witness: the first removal failed, the later ones were still made and
\* succeeded, and Rotate returned an error.
RemoveEveryWitness ==
    /\ mode = "main"
    /\ rotated.done
    /\ rotated.staged >= 2
    /\ rotated.failed = 1
    /\ rotated.attempted[1] \in dir[rotated.db]
    /\ rotated.attempted[2] \notin dir[rotated.db]
    /\ rotated.err

\* the record of the Archive call that returned last
LastArchive == log[Len(log)]

\* C13: when the dump command failed in the Archive call that returned last,
\* the file that call opened is not in the directory and the call returned
\* an error.
DumpCleanup ==
    (mode = "main" /\ Len(log) > 0 /\ LastArchive.dump) =>
        /\ LastArchive.name \notin dir[LastArchive.db]
        /\ LastArchive.arch # "nil"

\* C13 witness: a run has ended after a failed dump; the directory holds the
\* snapshots of earlier runs but not the file of this one.
DumpCleanupWitness ==
    /\ mode = "main"
    /\ status.exited
    /\ Len(log) > 0
    /\ LastArchive.dump
    /\ LastArchive.arch = "dump"
    /\ Cardinality(Snapshots(LastArchive.db)) >= 1
    /\ LastArchive.name \notin dir[LastArchive.db]

\* C14: an Archive call whose target name is already in the directory
\* returns the error of the failed open and leaves the directory as it was.
ExclusiveCreate ==
    [][(mode = "main" /\ pc = "archive" /\ ArchiveName(clock) \in dir[dbs[idx + 1]]) =>
          /\ log'[Len(log')].arch = "open"
          /\ dir' = dir]_vars

\* the databases Archive has been called for in this run, in call order
Attempted == [k \in 1..Len(log) |-> log[k].db]

\* C15: the Archive calls of a run are made for the databases of the list in
\* list order, one call per position: while the loop is at position idx the
\* calls made are those for the positions before it (and for idx itself once
\* Archive has returned nil), and when the process exits there has been
\* exactly one call per position, whichever calls failed.
EveryDbOnce ==
    mode = "main" =>
        /\ Len(log) <= Len(dbs)
        /\ Attempted = SubSeq(dbs, 1, Len(log))
        /\ pc = "archive" => Len(log) = idx
        /\ pc = "rotate" => Len(log) = idx + 1
        /\ (pc = "exit" \/ status.exited) => Len(log) = Len(dbs)

\* C15 witness: a run over two databases has ended in which the dump of the
\* first failed and the second was archived and rotated.
EveryDbOnceWitness ==
    /\ mode = "main"
    /\ status.exited
    /\ Len(dbs) = 2
    /\ Attempted = dbs
    /\ log[1].arch = "dump"
    /\ log[2].arch = "nil"
    /\ log[2].rot = "nil"

\* some Archive or Rotate call of this run returned an error
FailedAny == \E k \in 1..Len(log) : log[k].arch # "nil" \/ log[k].rot = "err"

\* C16: exit is 1 from the moment an Archive or a Rotate of the run has
\* returned an error, and the status the process exits with is 0 exactly when
\* none did, whatever became of the notification.
ExitStatusProperty ==
    mode = "main" =>
        /\ FailedAny => exit = 1
        /\ status.exited => (status.code = 0 <=> ~FailedAny)
        /\ status.exited => status.code = exit

\* C16 witness: every call of a run over two databases succeeded, sending the
\* notification failed, and the process exited with status 0.
ExitStatusWitness ==
    /\ mode = "main"
    /\ status.exited
    /\ Len(log) = 2
    /\ ~FailedAny
    /\ mailed = "failed"
    /\ status.code = 0

\* C19: when the dump and a close both failed in the Archive call that
\* returned last, the error it returned is the dump error.
DumpErrorReturned ==
    (mode = "main" /\ Len(log) > 0 /\ LastArchive.dump /\ LastArchive.close) =>
        LastArchive.arch = "dump"

-----------------------------------------------------------------------------
(* Further properties of sortAsArchives *)

\* the indices of the time series whose threshold the age of f is below
Windows(f) == {n \in 0..(quota - 1) : Age(f) < timeSeries[n]}

\* C17: once the assignment pass has run, every entry whose age is below the
\* last threshold of the time series is in exactly one tape, the one of the
\* smallest index whose threshold its age is below, and it is there once; an
\* entry whose age equals the threshold of a tape is not in that tape.
FirstFit ==
    (mode = "sched" /\ pc # "assign") =>
        \A k \in 1..Len(entries) :
            /\ Age(entries[k]) < timeSeries[quota - 1] =>
                   /\ TapesHolding(assigned, entries[k]) =
                          {CHOOSE n \in Windows(entries[k]) :
                               \A h \in Windows(entries[k]) : n <= h}
                   /\ \A n \in TapesHolding(assigned, entries[k]) :
                          Cardinality({x \in 1..Len(assigned[n]) :
                                          assigned[n][x] = entries[k]}) = 1
            /\ \A n \in 0..(quota - 1) :
                   Age(entries[k]) = timeSeries[n] =>
                       entries[k] \notin Range(assigned[n])

\* C17 witness: an entry exactly as old as the threshold of tape 3 has been
\* assigned to tape 4, next to an entry of age 0 in tape 0.
FirstFitWitness ==
    /\ mode = "sched"
    /\ pc = "leftover"
    /\ Len(entries) >= 2
    /\ Age(entries[1]) = 0
    /\ entries[1] \in Range(assigned[0])
    /\ \E k \in 1..Len(entries) :
          /\ Age(entries[k]) = timeSeries[3]
          /\ entries[k] \in Range(assigned[4])

\* C18: the step of the collision pass that visits a tape of 2 or more
\* entries leaves that tape holding one entry, the first (newest) of those it
\* held.
CollisionTruncates ==
    [][(mode = "sched" /\ pc = "collide" /\ i < quota /\ Len(tapes[i]) >= 2) =>
          tapes'[i] = <<Head(tapes[i])>>]_vars

\* C20: when the first entry of the sorted list handed to sortAsArchives is
\* younger than the last threshold of the time series, it is not in the purge
\* list the call returns.
NewestKept ==
    (Returned /\ Len(entries) >= 1 /\ Age(entries[1]) < timeSeries[quota - 1]) =>
        entries[1] \notin Range(a.purge)

\* C20 witness: a call has returned in which the first entry was kept while
\* the entry of the same second behind it, finding the next tape occupied,
\* went to purge.
NewestKeptWitness ==
    /\ Returned
    /\ Len(entries) >= 3
    /\ Age(entries[1]) = 0
    /\ Age(entries[2]) = 0
    /\ entries[1] \notin Range(a.purge)
    /\ entries[2] \in Range(a.purge)

====
